---- MODULE Spec2Model ----
(***************************************************************************)
(* Request-execution engine of the Tencent cloud API client: the retry     *)
(* loop of `doit` (src/src/api/tmt.rs) driven by a `Delegate`              *)
(* (src/src/client.rs).  One step of the model is the code that runs       *)
(* between two `.await` points of `doit`.                                  *)
(***************************************************************************)
EXTENDS Integers, Sequences, FiniteSets, TLC

\* ---------------------------------------------------------------- bounds
MaxRetry == 3        \* largest retry_times() a custom delegate returns
MaxDur   == 1        \* largest Retry::After duration (seconds)
MaxClock == 1        \* the clock ticks freely up to this reading

\* ------------------------------------------------------- program constants
DefaultRetryTimes == 3          \* Delegate::retry_times default body

UploadLimit == 4194304          \* `4 << 20`, the attachment size limit

\* ----------------------------------------------------------------- inputs
Calls    == {"a", "b"}
Errors   == {"refused", "tls"}          \* hyper::Error values
Statuses == {200, 299, 300}             \* http status codes
Bodies   == {"ok", "no"}                \* response bodies

\* serialized request payloads: the call's fields and, for an attachment
\* call, the base64 of the file (stood for by its length)
PayloadOf(f, n) == [fields |-> f, data |-> n]
NoPayload == PayloadOf("", 0)
Payloads == [a |-> PayloadOf("hello", 0), b |-> PayloadOf("world", 0)]
Credentials == {[id |-> "AKID", key |-> "secret"]}

\* the file behind image_path / audio_path: is it there, can it be read,
\* its length in bytes
NoFile == [exists |-> FALSE, readable |-> FALSE, len |-> 0]
FileOf(n, r) == [exists |-> TRUE, readable |-> r, len |-> n]
Files == {NoFile, FileOf(UploadLimit - 1, FALSE)}
         \cup {FileOf(n, TRUE) :
                  n \in {UploadLimit - 1, UploadLimit, UploadLimit + 1}}

\* the payload of an attachment call
UploadPayload(k, f) == PayloadOf(k, f.len)

\* enum Retry { Abort, After(Duration) }
Abort    == [kind |-> "Abort", d |-> 0]
After(d) == [kind |-> "After", d |-> d]
Retry    == {Abort} \cup {After(d) : d \in 0..MaxDur}

\* the delegate handed to the call: None (DefaultDelegate is used) or a
\* caller's implementation of the trait
DefaultDelegate   == [kind |-> "default", retry |-> DefaultRetryTimes]
CustomDelegate(n) == [kind |-> "custom", retry |-> n]
Delegates == {DefaultDelegate} \cup {CustomDelegate(n) : n \in 0..MaxRetry}

\* a caller's delegate whose retry_times() returns n until one of its
\* failure callbacks has run and m from then on
FickleDelegate(n, m) == [kind |-> "fickle", retry |-> n, next |-> m]
FickleDelegates ==
    {FickleDelegate(n, m) : n \in 0..MaxRetry, m \in {0, MaxRetry + 1}}

\* Delegate::retry_times
retry_times_of(d) == d.retry

\* the delegate after http_error or http_failure ran on it (`&mut self`)
AfterCallback(d) ==
    IF d.kind = "fickle" THEN [d EXCEPT !.retry = d.next] ELSE d

\* slip: the default body of http_error asks for a retry
http_error_retrying(d) == Retry

\* Delegate::http_error: the decisions the delegate may return
http_error(d) == IF d.kind = "default" THEN {Abort} ELSE Retry

\* Delegate::http_failure: the decisions the delegate may return
http_failure(d) == IF d.kind = "default" THEN {Abort} ELSE Retry

\* what `https_client.request(request).await` resolves to.  `complete` says
\* whether the body stream can be read to its end.
ErrOutcome(e) == [kind |-> "err", err |-> e, status |-> 0, body |-> "",
                  complete |-> TRUE]
ResOutcome(s, b, k) == [kind |-> "res", err |-> "", status |-> s, body |-> b,
                        complete |-> k]
Outcomes == {ErrOutcome(e) : e \in Errors}
            \cup {ResOutcome(s, b, TRUE) : s \in Statuses, b \in Bodies}
            \cup {ResOutcome(200, "ok", FALSE)}
NoOutcome == ErrOutcome("")

\* slip: the abort path of the `Err(err)` arm returns Error::Cancelled
HttpError_cancelled(e) ==
    [tag |-> "Cancelled", err |-> "", status |-> 0, body |-> ""]

\* crate::Error / Result<Vec<u8>> as returned by doit
NoResult       == [tag |-> "None", err |-> "", status |-> 0, body |-> ""]
OkResult(b)    == [tag |-> "Ok", err |-> "", status |-> 0, body |-> b]
HttpError(e)   == [tag |-> "HttpError", err |-> e, status |-> 0, body |-> ""]
Failure(s, b)  == [tag |-> "Failure", err |-> "", status |-> s, body |-> b]
Cancelled      == [tag |-> "Cancelled", err |-> "", status |-> 0, body |-> ""]
IoError(k)     == [tag |-> "Io", err |-> k, status |-> 0, body |-> ""]

VARIABLES
    pc,           \* per call: position of the doit future
    dlg,          \* per call: the delegate it was given
    retry_times,  \* per call: local `retry_times`
    i,            \* per call: loop variable `i`
    res,          \* per call: the response whose body is being aggregated
    wake,         \* per call: deadline of the pending tokio::time::sleep
    inflight,     \* per call: requests handed to the transport, unanswered
    result,       \* per call: value doit returned
    log,          \* per call: calls made on the delegate and the transport
    clock,        \* chrono::Utc::now().timestamp()
    kind,         \* per call: the call builder it comes from
    file,         \* per call: the attachment at image_path / audio_path
    payload,      \* per call: `request_payload`
    credential,   \* client.credential
    signed,       \* the last two calls of the signer on its own
    hasher,       \* sha256_hex called on its own: the Sha256 and the hex string
    customizer    \* per call: the closure `f` that doit is given

vars == <<pc, dlg, retry_times, i, res, wake, inflight, result, log, clock,
          kind, file, payload, credential, signed, hasher, customizer>>

\* the calls and the client: what a step of sha256_hex leaves alone
calls == <<pc, dlg, retry_times, i, res, wake, inflight, result, log, clock,
           kind, file, payload, credential, signed, customizer>>

\* what the steps of a call leave alone: its inputs and the client (and the
\* record of the signer called on its own)
inputs == <<kind, file, payload, credential, signed, hasher, customizer>>

Ev(e, att, v) == [ev |-> e, att |-> att, val |-> v]

\* slip: only status 200 counts as success
is_success_only_200(status) == status = 200

\* StatusCode::is_success
is_success(status) == 200 <= status /\ status < 300

\* slip: inclusive range `0..=retry_times`
LoopCond_inclusive(idx, n) == idx <= n

\* slip: the body runs once before the bound is looked at
LoopCond_body_first(idx, n) == idx = 0 \/ idx < n

\* `for i in 0..retry_times`: the body runs for index idx
LoopCond(idx, n) == idx < n

\* slip: `if i == retry_times { break; }`
IsLastAttempt_off_by_one(idx, n) == idx = n

\* slip: the check for the last attempt is left out
IsLastAttempt_never(idx, n) == FALSE

\* `if i + 1 == retry_times { break; }`
IsLastAttempt(idx, n) == idx + 1 = n

\* slip: every answer of the delegate is taken as a retry
IsAfter_always(dec) == TRUE

\* slip: the arms of the decision are swapped
IsAfter_swapped(dec) == dec.kind = "Abort"

\* `if let client::Retry::After(d) = ...`
IsAfter(dec) == dec.kind = "After"

\* slip: the sleep is not awaited
SleepDeadline_no_wait(now, d) == now

\* tokio::time::sleep(d): the instant it completes at the earliest
SleepDeadline(now, d) == now + d

\* ------------------------------------------------------------------ signer
HMAC_ALGORITHM == "TC3-HMAC-SHA256"
BASE_HOST == "tmt.tencentcloudapi.com"
SERVICE == "tmt"
JSON_MIME == "JSON_MIME"
SecondsPerDay == 86400

\* In the signer a digest is the term of its input (no two inputs collide)
\* and a formatted string is the tuple of its lines or parts.
sha256_hex(x) == [sha256_hex |-> x]

hmac_sha256(x, key) == [hmac |-> x, key |-> key]

hex_of(bytes) == [hex |-> bytes]

\* `datetime.format("%F")`: the UTC day the instant falls in
DateOf(t) == t \div SecondsPerDay

\* struct SignatureV3Arg
SignatureV3Arg(pl, cred, ts) ==
    [content_type |-> JSON_MIME, host |-> BASE_HOST, request_payload |-> pl,
     service |-> SERVICE, secret_key |-> cred.key, secret_id |-> cred.id,
     timestamp |-> ts]

\* slip: the signer takes the timestamp it is given, 0 included
DateTimeOf_never_now(ts, now) == ts

\* slip: the signer takes the clock whatever timestamp it is given
DateTimeOf_always_now(ts, now) == now

\* `if arg.timestamp == 0 { Utc::now() } else { Utc.timestamp_opt(..) }`
DateTimeOf(ts, now) == IF ts = 0 THEN now ELSE ts

\* signature_v3_with_post; now is what Utc::now() returns if it is called
signature_v3_with_post(arg, now) ==
    LET hashed_payload == sha256_hex(arg.request_payload)
        signed_header == "content-type;host"
        canonical_request ==
            << "POST", "/", "", <<"content-type:", arg.content_type>>,
               <<"host:", arg.host>>, "", signed_header, hashed_payload >>
        datetime == DateTimeOf(arg.timestamp, now)
        date == DateOf(datetime)
        canonical_scope == << date, arg.service, "tc3_request" >>
        hashed_canonical_request == sha256_hex(canonical_request)
        sign_string == << HMAC_ALGORITHM, datetime, canonical_scope,
                          hashed_canonical_request >>
        secret_date == hmac_sha256(date, << "TC3", arg.secret_key >>)
        secret_service == hmac_sha256(arg.service, secret_date)
        secret_key == hmac_sha256("tc3_request", secret_service)
        signature == hex_of(hmac_sha256(sign_string, secret_key))
    IN  [algorithm |-> HMAC_ALGORITHM,
         credential |-> << arg.secret_id, canonical_scope >>,
         signed_headers |-> signed_header,
         signature |-> signature]

\* the closure `f` of doit: `|b| b`, or the one that adds X-TC-Region
Identity == [kind |-> "identity", region |-> ""]
WithRegion(r) == [kind |-> "region", region |-> r]
Regions == {"ap-guangzhou", "ap-beijing"}
Customizers == {Identity} \cup {WithRegion(r) : r \in Regions}

\* `req_builder = f(req_builder)`: the headers it adds to those of headers
Customize(f, headers) ==
    IF f.kind = "identity" THEN headers
    ELSE Append(headers, <<"X-TC-Region", f.region>>)

\* two clock reads in a row: the second is not earlier than the first
UtcNowAgain(now) == {now, now + 1}

\* slip: the signature is computed once, for a fixed timestamp, and reused
BuildRequest_cached_signature(now, now2, pl, cred, f) ==
    [timestamp |-> now,
     customized |-> Customize(f, << >>),
     authorization |->
        signature_v3_with_post(SignatureV3Arg(pl, cred, 1), now2),
     body |-> pl]

\* slip: the body is not the payload that was signed
BuildRequest_other_body(now, now2, pl, cred, f) ==
    [timestamp |-> now,
     customized |-> Customize(f, << >>),
     authorization |->
        signature_v3_with_post(SignatureV3Arg(pl, cred, now), now2),
     body |-> NoPayload]

\* slip: the signer is given a reading of the clock taken a second later
BuildRequest_later_reading(now, now2, pl, cred, f) ==
    [timestamp |-> now,
     customized |-> Customize(f, << >>),
     authorization |->
        signature_v3_with_post(SignatureV3Arg(pl, cred, now + 1), now2),
     body |-> pl]

\* slip: the headers the closure added are signed with the host
BuildRequest_signs_customized(now, now2, pl, cred, f) ==
    [timestamp |-> now,
     customized |-> Customize(f, << >>),
     authorization |->
        signature_v3_with_post(
            [SignatureV3Arg(pl, cred, now) EXCEPT
                !.host = Customize(f, << BASE_HOST >>)], now2),
     body |-> pl]

\* the request built in the loop body at time now (X-TC-Timestamp, what
\* `f` added, Authorization, body); now2 is the signer's own reading of
\* the clock
BuildRequest(now, now2, pl, cred, f) ==
    [timestamp |-> now,
     customized |-> Customize(f, << >>),
     authorization |->
        signature_v3_with_post(SignatureV3Arg(pl, cred, now), now2),
     body |-> pl]

\* slip: the delegate is not shown the request
AttemptEvents_no_pre_request(att, req) == << Ev("send", att, req) >>

\* one loop body up to `https_client.request(request)`:
\* the request is built, shown to the delegate, handed to the transport
AttemptEvents(att, req) ==
    << Ev("pre_request", att, req), Ev("send", att, req) >>

\* slip: the bound is asked for before begin
BeginEvents_bound_first(d) ==
    << Ev("retry_times", 0, retry_times_of(d)), Ev("begin", 0, "tmt") >>

\* calls on the delegate when doit starts
BeginEvents(d) ==
    << Ev("begin", 0, "tmt"), Ev("retry_times", 0, retry_times_of(d)) >>

\* ----------------------------------------------------------------- sha256
\* sha256_hex computed: Sha256::new, update, finalize, to_hex_string.
\* A 32-bit word is the tuple of its bits, most significant first; a word
\* is written as its two 16-bit halves.

RECURSIVE Pow2(_)
Pow2(n) == IF n = 0 THEN 1 ELSE 2 * Pow2(n - 1)

Word(hi, lo) ==
    [k \in 1..32 |-> IF k <= 16 THEN (hi \div Pow2(16 - k)) % 2
                                ELSE (lo \div Pow2(32 - k)) % 2]

RECURSIVE Bits(_, _, _)
\* the number written by the n bits of w after position from
Bits(w, from, n) ==
    IF n = 0 THEN 0 ELSE 2 * Bits(w, from, n - 1) + w[from + n]

RECURSIVE SumBits(_, _, _)
SumBits(ws, from, n) ==
    IF n = 0 THEN 0 ELSE SumBits(ws, from, n - 1) + Bits(ws[n], from, 16)

\* u32::wrapping_add over the words of ws
wrapping_add(ws) ==
    LET lo == SumBits(ws, 16, Len(ws))
        hi == SumBits(ws, 0, Len(ws)) + lo \div 65536
    IN  Word(hi % 65536, lo % 65536)

Xor(x, y) == [k \in 1..32 |-> (x[k] + y[k]) % 2]
And(x, y) == [k \in 1..32 |-> x[k] * y[k]]
Not(x) == [k \in 1..32 |-> 1 - x[k]]
rotate_right(x, n) == [k \in 1..32 |-> x[((k - 1 - n + 32) % 32) + 1]]
Shr(x, n) == [k \in 1..32 |-> IF k > n THEN x[k - n] ELSE 0]

Ch(x, y, z) == Xor(And(x, y), And(Not(x), z))
Maj(x, y, z) == Xor(Xor(And(x, y), And(x, z)), And(y, z))
BigSigma0(x) == Xor(Xor(rotate_right(x, 2), rotate_right(x, 13)), rotate_right(x, 22))
BigSigma1(x) == Xor(Xor(rotate_right(x, 6), rotate_right(x, 11)), rotate_right(x, 25))
SmallSigma0(x) == Xor(Xor(rotate_right(x, 7), rotate_right(x, 18)), Shr(x, 3))
SmallSigma1(x) == Xor(Xor(rotate_right(x, 17), rotate_right(x, 19)), Shr(x, 10))

\* the round constants, as 16-bit halves
K32 == <<
    <<17034, 12184>>, <<28983, 17553>>, <<46528, 64463>>, <<59829, 56229>>,
    <<14678, 49755>>, <<23025,  4593>>, <<37439, 33444>>, <<43804, 24277>>,
    <<55303, 43672>>, << 4739, 23297>>, << 9265, 34238>>, <<21772, 32195>>,
    <<29374, 23924>>, <<32990, 45566>>, <<39900,  1703>>, <<49563, 61812>>,
    <<58523, 27073>>, <<61374, 18310>>, << 4033, 40390>>, << 9228, 41420>>,
    <<11753, 11375>>, <<19060, 33962>>, <<23728, 43484>>, <<30457, 35034>>,
    <<38974, 20818>>, <<43057, 50797>>, <<45059, 10184>>, <<48985, 32711>>,
    <<50912,  3059>>, <<54695, 37191>>, << 1738, 25425>>, << 5161, 10599>>,
    <<10167,  2693>>, <<11803,  8504>>, <<19756, 28156>>, <<21304,  3347>>,
    <<25866, 29524>>, <<30314,  2747>>, <<33218, 51502>>, <<37490, 11397>>,
    <<41663, 59553>>, <<43034, 26187>>, <<49739, 35696>>, <<51052, 20899>>,
    <<53650, 59417>>, <<54937,  1572>>, <<62478, 13701>>, << 4202, 41072>>,
    << 6564, 49430>>, << 7735, 27656>>, <<10056, 30540>>, <<13488, 48309>>,
    <<14620,  3251>>, <<20184, 43594>>, <<23452, 51791>>, <<26670, 28659>>,
    <<29839, 33518>>, <<30885, 25455>>, <<33992, 30740>>, <<36039,   520>>,
    <<37054, 65530>>, <<42064, 27883>>, <<48889, 41975>>, <<50801, 30962>> >>

\* the initial hash value, as 16-bit halves
H256_INIT == <<
    <<27145, 58983>>, <<47975, 44677>>, <<15470, 62322>>, <<42319, 62778>>,
    <<20750, 21119>>, <<39685, 26764>>, << 8067, 55723>>, <<23520, 52505>> >>

\* the documented JSON payload of the unit test, as the bytes of the raw
\* string {"Limit": 1, "Filters": [{"Values": ["\u672a\u547d\u540d"],
\* "Name": "instance-name"}]}, and the empty string
DocumentedPayload == <<
    123,  34,  76, 105, 109, 105, 116,  34,  58,  32,  49,  44,  32,  34,  70, 105,
    108, 116, 101, 114, 115,  34,  58,  32,  91, 123,  34,  86,  97, 108, 117, 101,
    115,  34,  58,  32,  91,  34,  92, 117,  54,  55,  50,  97,  92, 117,  53,  52,
     55, 100,  92, 117,  53,  52,  48, 100,  34,  93,  44,  32,  34,  78,  97, 109,
    101,  34,  58,  32,  34, 105, 110, 115, 116,  97, 110,  99, 101,  45, 110,  97,
    109, 101,  34, 125,  93, 125 >>

HashInputs == [documented |-> DocumentedPayload, empty |-> << >>]

\* the word of four bytes, big-endian
WordOfBytes(b) == Word(b[1] * 256 + b[2], b[3] * 256 + b[4])

\* the bytes of a word, big-endian
BytesOfWord(w) == [n \in 1..4 |-> Bits(w, 8 * (n - 1), 8)]

\* finalize: the padding after a message of len bytes
Padding(len) ==
    <<128>> \o [n \in 1..((119 - (len % 64)) % 64) |-> 0]
            \o <<0, 0, 0, 0>> \o BytesOfWord(Word((8 * len) \div 65536, (8 * len) % 65536))

NoHasher ==
    [pc |-> "none", input |-> "", len |-> 0, pending |-> << >>, padded |-> FALSE,
     state |-> << >>, v |-> << >>, W |-> << >>, digest |-> << >>, hex_string |-> ""]

\* one step of the message schedule: word t (from 0) of the block
Schedule(block, W) ==
    LET t == Len(W)
    IN  IF t < 16
        THEN WordOfBytes(SubSeq(block, 4 * t + 1, 4 * t + 4))
        ELSE wrapping_add(<<SmallSigma1(W[t - 1]), W[t - 6],
                            SmallSigma0(W[t - 14]), W[t - 15]>>)

\* one round of the compression function on the working variables a..h
Round(v, k, w) ==
    LET t1 == wrapping_add(<<v[8], BigSigma1(v[5]), Ch(v[5], v[6], v[7]), k, w>>)
        t2 == wrapping_add(<<BigSigma0(v[1]), Maj(v[1], v[2], v[3])>>)
    IN  <<wrapping_add(<<t1, t2>>), v[1], v[2], v[3],
          wrapping_add(<<v[4], t1>>), v[5], v[6], v[7]>>

HexDigit_upper(n) ==
    <<"0", "1", "2", "3", "4", "5", "6", "7", "8", "9",
      "A", "B", "C", "D", "E", "F">>[n + 1]

\* a digit of the `x` format
HexDigit(n) ==
    <<"0", "1", "2", "3", "4", "5", "6", "7", "8", "9",
      "a", "b", "c", "d", "e", "f">>[n + 1]

\* write!(hex_string, "{:02x}", byte)
Format02x(byte) == HexDigit(byte \div 16) \o HexDigit(byte % 16)

\* ------------------------------------------------------------------ state
\* slip: the variables of a call are shared by all calls
Upd_shared(f, c, v) == [x \in DOMAIN f |-> v]

\* an assignment to a local of call c
Upd(f, c, v) == [f EXCEPT ![c] = v]

Max(x, y) == IF x >= y THEN x ELSE y

InitWith(live) ==
    /\ pc = [c \in Calls |-> IF c \in live THEN "idle" ELSE "none"]
    /\ dlg \in [Calls -> Delegates]
    /\ \A c \in Calls \ live : dlg[c] = DefaultDelegate
    /\ retry_times = [c \in Calls |-> 0]
    /\ i = [c \in Calls |-> 0]
    /\ res = [c \in Calls |-> NoOutcome]
    /\ wake = [c \in Calls |-> 0]
    /\ inflight = [c \in Calls |-> 0]
    /\ result = [c \in Calls |-> NoResult]
    /\ log = [c \in Calls |-> << >>]
    /\ clock = 0
    /\ kind = [c \in Calls |-> "text"]
    /\ file = [c \in Calls |-> NoFile]
    /\ payload = [c \in Calls |-> Payloads[c]]
    /\ signed = << >>
    /\ credential \in Credentials
    /\ hasher = NoHasher
    /\ customizer = [c \in Calls |-> WithRegion("ap-guangzhou")]

\* one call on the client
Init == InitWith({"a"})

\* doit returns r
Return(c, r, lg) ==
    /\ pc' = Upd(pc, c, "done")
    /\ result' = Upd(result, c, r)
    /\ log' = Upd(log, c, Append(lg, Ev("return", 0, r)))

\* head of `for i in 0..retry_times` reached with index idx at time now:
\* the body runs up to `https_client.request(request).await`, or the loop is
\* over and doit ends in `Err(Error::Cancelled)`
\* The signer reads the clock itself when the timestamp it is given is 0;
\* the clock is then at that second reading.
LoopHead(c, idx, n, now, lg, pl) ==
    IF LoopCond(idx, n)
    THEN \E now2 \in (IF now = 0 THEN UtcNowAgain(now) ELSE {now}) :
         /\ pc' = Upd(pc, c, "awaiting")
         /\ i' = Upd(i, c, idx)
         /\ inflight' = Upd(inflight, c, inflight[c] + 1)
         /\ log' = Upd(log, c, lg \o AttemptEvents(idx + 1,
                                   BuildRequest(now, now2, pl, credential,
                                                customizer[c])))
         /\ result' = result
         /\ clock' = now2
    ELSE /\ Return(c, Cancelled, lg)
         /\ i' = Upd(i, c, idx)
         /\ inflight' = inflight
         /\ clock' = now

\* doit runs up to its first await: begin, retry_times, first pass of the
\* loop
DoitStart(c, pl) ==
    /\ retry_times' = Upd(retry_times, c, retry_times_of(dlg[c]))
    /\ LoopHead(c, 0, retry_times_of(dlg[c]), clock, BeginEvents(dlg[c]), pl)
    /\ UNCHANGED <<dlg, res, wake>>

\* a call without attachment is polled: the payload is serialized and doit
\* is called
Doit(c) ==
    /\ pc[c] = "idle"
    /\ DoitStart(c, payload[c])
    /\ UNCHANGED inputs

\* slip: the delegate is asked for the bound again where it is used
LoopBound_asked_again(c) == retry_times_of(dlg[c])

\* the bound of the loop: the local `retry_times`
LoopBound(c) == retry_times[c]

\* the arms `Err(err)` and `Ok(res)` with a non-success status, after the
\* delegate answered dec: r is the error the abort path returns
OnFailure(c, dec, r, lg) ==
    IF IsAfter(dec)
    THEN IF IsLastAttempt(i[c], LoopBound(c))
         THEN /\ Return(c, Cancelled, lg)
              /\ wake' = wake
         ELSE /\ pc' = Upd(pc, c, "sleeping")
              /\ wake' = Upd(wake, c, SleepDeadline(clock, dec.d))
              /\ log' = Upd(log, c, Append(lg,
                             Ev("sleep", i[c] + 1,
                                [d |-> dec.d, at |-> clock])))
              /\ result' = result
    ELSE /\ Return(c, r, Append(lg, Ev("finished", 0, FALSE)))
         /\ wake' = wake

\* `https_client.request(request).await` resolves; `match req_result`
Response(c) ==
    /\ pc[c] = "awaiting"
    /\ inflight' = Upd(inflight, c, inflight[c] - 1)
    /\ \E out \in Outcomes :
         LET att == i[c] + 1
             lg  == Append(log[c], Ev("response", att, out))
         IN  IF out.kind = "err"
             THEN /\ \E dec \in http_error(dlg[c]) :
                        OnFailure(c, dec, HttpError(out.err),
                            Append(lg, Ev("http_error", att,
                                [err |-> out.err, dec |-> dec])))
                  /\ res' = res
                  /\ dlg' = Upd(dlg, c, AfterCallback(dlg[c]))
             ELSE IF ~ is_success(out.status)
             THEN /\ \E dec \in http_failure(dlg[c]) :
                        OnFailure(c, dec, Failure(out.status, out.body),
                            Append(lg, Ev("http_failure", att,
                                [status |-> out.status, body |-> out.body,
                                 dec |-> dec])))
                  /\ res' = res
                  /\ dlg' = Upd(dlg, c, AfterCallback(dlg[c]))
             ELSE /\ pc' = Upd(pc, c, "aggregating")
                  /\ res' = Upd(res, c, out)
                  /\ log' = Upd(log, c, lg)
                  /\ UNCHANGED <<wake, result, dlg>>
    /\ UNCHANGED <<retry_times, i, clock>>
    /\ UNCHANGED inputs

\* `body::aggregate(res.into_body()).await.unwrap()` resolves
Aggregate(c) ==
    /\ pc[c] = "aggregating"
    /\ IF res[c].complete
       THEN Return(c, OkResult(res[c].body), log[c])
       ELSE /\ pc' = Upd(pc, c, "panicked")
            /\ log' = Upd(log, c, Append(log[c], Ev("panic", 0, "unwrap")))
            /\ result' = result
    /\ res' = Upd(res, c, NoOutcome)
    /\ UNCHANGED <<dlg, retry_times, i, wake, inflight, clock>>
    /\ UNCHANGED inputs

\* `tokio::time::sleep(d).await` resolves; `continue`
SleepDone(c) ==
    /\ pc[c] = "sleeping"
    /\ wake' = Upd(wake, c, 0)
    /\ LET now == Max(clock, wake[c])
       IN  LoopHead(c, i[c] + 1, LoopBound(c), now,
                    Append(log[c], Ev("wake", i[c] + 1, now)), payload[c])
    /\ UNCHANGED <<dlg, retry_times, res>>
    /\ UNCHANGED inputs

\* a second passes
Tick ==
    /\ clock < MaxClock
    /\ clock' = clock + 1
    /\ UNCHANGED <<pc, dlg, retry_times, i, res, wake, inflight, result, log>>
    /\ UNCHANGED inputs

Next ==
    \/ \E c \in Calls : Doit(c)
    \/ \E c \in Calls : Response(c)
    \/ \E c \in Calls : Aggregate(c)
    \/ \E c \in Calls : SleepDone(c)
    \/ Tick

Spec == Init /\ [][Next]_vars

\* ------------------------------------------------ the signer on its own
\* arguments the signer is called with
SignArgs ==
    {SignatureV3Arg(pl, [id |-> "AKID", key |-> k], ts) :
        pl \in {Payloads[c] : c \in Calls}, k \in {"secret", "other"},
        ts \in (0..(MaxClock + 1)) \cup {SecondsPerDay}}

\* signature_v3_with_post(arg) is called; the last two calls are kept
Sign(arg) ==
    /\ signed' = (IF signed = << >> THEN << >> ELSE << signed[Len(signed)] >>)
                  \o << [arg |-> arg, at |-> clock,
                         out |-> signature_v3_with_post(arg, clock)] >>
    /\ UNCHANGED <<pc, dlg, retry_times, i, res, wake, inflight, result, log,
                   clock, kind, file, payload, credential, hasher,
                   customizer>>

InitSign ==
    /\ InitWith({})
    /\ \A c \in Calls : dlg[c] = DefaultDelegate

\* a day passes between two calls of the signer
DayPasses ==
    /\ clock < SecondsPerDay
    /\ clock' = clock + SecondsPerDay
    /\ UNCHANGED <<pc, dlg, retry_times, i, res, wake, inflight, result, log>>
    /\ UNCHANGED inputs

NextSign ==
    \/ \E arg \in SignArgs : Sign(arg)
    \/ Tick
    \/ DayPasses

SpecSign == InitSign /\ [][NextSign]_vars

\* ------------------------------------------------ sha256_hex on its own
\* Sha256::new(); hasher.update(payload)
Sha256New(m) ==
    /\ hasher.pc = "none"
    /\ hasher' = [NoHasher EXCEPT !.pc = "update", !.input = m,
                                  !.len = Len(HashInputs[m]),
                                  !.pending = HashInputs[m],
                                  !.state = [n \in 1..8 |-> Word(H256_INIT[n][1], H256_INIT[n][2])]]
    /\ UNCHANGED calls

\* a whole block is pending: start compressing it
Compress ==
    /\ hasher.pc = "update"
    /\ Len(hasher.pending) >= 64
    /\ hasher' = [hasher EXCEPT !.pc = "round", !.v = hasher.state, !.W = << >>]
    /\ UNCHANGED calls

\* one of the 64 rounds; after the last one the block is consumed
RoundStep ==
    /\ hasher.pc = "round"
    /\ LET t == Len(hasher.W)
           w == Schedule(SubSeq(hasher.pending, 1, 64), hasher.W)
       IN  IF t < 64
           THEN hasher' = [hasher EXCEPT
                    !.W = Append(hasher.W, w),
                    !.v = Round(hasher.v, Word(K32[t + 1][1], K32[t + 1][2]), w)]
           ELSE hasher' = [hasher EXCEPT
                    !.pc = "update",
                    !.pending = SubSeq(hasher.pending, 65, Len(hasher.pending)),
                    !.state = [n \in 1..8 |-> wrapping_add(<<hasher.state[n], hasher.v[n]>>)]]
    /\ UNCHANGED calls

\* hasher.finalize(): pad what is pending, compress it, give the digest
Finalize ==
    /\ hasher.pc = "update"
    /\ Len(hasher.pending) < 64
    /\ IF ~hasher.padded
       THEN hasher' = [hasher EXCEPT !.padded = TRUE,
                           !.pending = hasher.pending \o Padding(hasher.len)]
       ELSE hasher' = [hasher EXCEPT !.pc = "hex",
                           !.digest = [n \in 1..32 |->
                               BytesOfWord(hasher.state[((n - 1) \div 4) + 1])[((n - 1) % 4) + 1]]]
    /\ UNCHANGED calls

\* to_hex_string: one turn of the loop over the digest, then the return
ToHexString ==
    /\ hasher.pc = "hex"
    /\ IF hasher.digest # << >>
       THEN hasher' = [hasher EXCEPT
                !.digest = Tail(hasher.digest),
                !.hex_string = hasher.hex_string \o Format02x(Head(hasher.digest))]
       ELSE hasher' = [hasher EXCEPT !.pc = "done"]
    /\ UNCHANGED calls

InitHash ==
    /\ InitWith({})
    /\ \A c \in Calls : dlg[c] = DefaultDelegate

NextHash ==
    \/ \E m \in DOMAIN HashInputs : Sha256New(m)
    \/ Compress
    \/ RoundStep
    \/ Finalize
    \/ ToHexString

SpecHash == InitHash /\ [][NextHash]_vars

\* ------------------------------------------- two calls on the same client
\* both calls are polled on tasks of their own, each with its own delegate
\* the delegates of the two calls: call a is given one that allows no
\* attempt, one attempt or a retry, call b is given none or one that allows
\* a single attempt
ConcDelegates ==
    [a |-> {CustomDelegate(0), CustomDelegate(1), CustomDelegate(2)},
     b |-> {DefaultDelegate, CustomDelegate(1)}]

InitConc ==
    /\ InitWith(Calls)
    /\ \A c \in Calls : dlg[c] \in ConcDelegates[c]

SpecConc == InitConc /\ [][Next]_vars

\* ------------------------------- the same payload under two customizers
\* two calls are given the same payload and each a closure `f` of its own;
\* each makes one attempt
InitHeaders ==
    /\ pc = [c \in Calls |-> "idle"]
    /\ dlg \in [Calls -> {DefaultDelegate, CustomDelegate(1)}]
    /\ retry_times = [c \in Calls |-> 0]
    /\ i = [c \in Calls |-> 0]
    /\ res = [c \in Calls |-> NoOutcome]
    /\ wake = [c \in Calls |-> 0]
    /\ inflight = [c \in Calls |-> 0]
    /\ result = [c \in Calls |-> NoResult]
    /\ log = [c \in Calls |-> << >>]
    /\ clock = 0
    /\ kind = [c \in Calls |-> "text"]
    /\ file = [c \in Calls |-> NoFile]
    /\ payload = [c \in Calls |-> Payloads["a"]]
    /\ credential \in Credentials
    /\ signed = << >>
    /\ hasher = NoHasher
    /\ customizer \in [Calls -> Customizers]

NextHeaders ==
    \/ \E c \in Calls : Doit(c)
    \/ \E c \in Calls : Response(c)
    \/ \E c \in Calls : Aggregate(c)
    \/ Tick

SpecHeaders == InitHeaders /\ [][NextHeaders]_vars

\* ------------------------- a delegate whose retry_times() does not hold
\* one call, given a delegate whose answer to retry_times() changes once
\* one of its failure callbacks has run
InitFickle ==
    /\ pc = [c \in Calls |-> IF c = "a" THEN "idle" ELSE "none"]
    /\ dlg \in [Calls -> FickleDelegates \cup {DefaultDelegate}]
    /\ dlg["a"] \in FickleDelegates
    /\ dlg["b"] = DefaultDelegate
    /\ retry_times = [c \in Calls |-> 0]
    /\ i = [c \in Calls |-> 0]
    /\ res = [c \in Calls |-> NoOutcome]
    /\ wake = [c \in Calls |-> 0]
    /\ inflight = [c \in Calls |-> 0]
    /\ result = [c \in Calls |-> NoResult]
    /\ log = [c \in Calls |-> << >>]
    /\ clock = 0
    /\ kind = [c \in Calls |-> "text"]
    /\ file = [c \in Calls |-> NoFile]
    /\ payload = [c \in Calls |-> Payloads[c]]
    /\ credential \in Credentials
    /\ signed = << >>
    /\ hasher = NoHasher
    /\ customizer = [c \in Calls |-> WithRegion("ap-guangzhou")]

SpecFickle == InitFickle /\ [][Next]_vars

\* ------------------------------------------------ calls with an attachment
\* slip: `if metadata.len() > 4 << 20`
TooLarge_strict(len) == len > UploadLimit

\* `if metadata.len() >= 4 << 20`
TooLarge(len) == len >= UploadLimit

\* ImageTranslateCall::doit / SpeechTranslateCall::doit up to
\* `tokio::fs::read(..).await`: the metadata arrives, the size is checked
Metadata(c) ==
    /\ pc[c] = "metadata"
    /\ IF ~ file[c].exists
       THEN /\ pc' = Upd(pc, c, "done")
            /\ result' = Upd(result, c, IoError("NotFound"))
       ELSE IF TooLarge(file[c].len)
       THEN /\ pc' = Upd(pc, c, "done")
            /\ result' = Upd(result, c, IoError("Unsupported"))
       ELSE /\ pc' = Upd(pc, c, "reading")
            /\ result' = result
    /\ UNCHANGED <<dlg, retry_times, i, res, wake, inflight, log, clock>>
    /\ UNCHANGED inputs

\* `tokio::fs::read(..).await?` resolves; the payload is serialized and doit
\* is called
ReadFile(c) ==
    /\ pc[c] = "reading"
    /\ IF file[c].readable
       THEN /\ payload' = Upd(payload, c, UploadPayload(kind[c], file[c]))
            /\ DoitStart(c, UploadPayload(kind[c], file[c]))
       ELSE /\ pc' = Upd(pc, c, "done")
            /\ result' = Upd(result, c, IoError("PermissionDenied"))
            /\ payload' = payload
            /\ UNCHANGED <<dlg, retry_times, i, res, wake, inflight, log,
                           clock>>
    /\ UNCHANGED <<kind, file, credential, signed, hasher, customizer>>

\* one image or speech translation on the client
InitUpload ==
    /\ pc = [c \in Calls |-> IF c = "a" THEN "metadata" ELSE "none"]
    /\ dlg \in [Calls -> Delegates]
    /\ dlg["b"] = DefaultDelegate
    /\ retry_times = [c \in Calls |-> 0]
    /\ i = [c \in Calls |-> 0]
    /\ res = [c \in Calls |-> NoOutcome]
    /\ wake = [c \in Calls |-> 0]
    /\ inflight = [c \in Calls |-> 0]
    /\ result = [c \in Calls |-> NoResult]
    /\ log = [c \in Calls |-> << >>]
    /\ clock = 0
    /\ kind \in [Calls -> {"image", "speech"}]
    /\ kind["b"] = "image"
    /\ file \in [Calls -> Files]
    /\ file["b"] = NoFile
    /\ payload = [c \in Calls |-> NoPayload]
    /\ credential \in Credentials
    /\ signed = << >>
    /\ hasher = NoHasher
    /\ customizer = [c \in Calls |-> WithRegion("ap-guangzhou")]

NextUpload ==
    \/ \E c \in Calls : Metadata(c)
    \/ \E c \in Calls : ReadFile(c)
    \/ \E c \in Calls : Response(c)
    \/ \E c \in Calls : Aggregate(c)
    \/ \E c \in Calls : SleepDone(c)
    \/ Tick

SpecUpload == InitUpload /\ [][NextUpload]_vars

\* ---------------------------------------------------------- reading the log
Pos(c) == DOMAIN log[c]

Count(c, e) == Len(SelectSeq(log[c], LAMBDA x : x.ev = e))

CountAt(c, e, att) ==
    Len(SelectSeq(log[c], LAMBDA x : x.ev = e /\ x.att = att))

Sends(c) == Count(c, "send")

Sleeps(c) == Count(c, "sleep")

Returned(c) == pc[c] = "done"

TypeOK ==
    /\ pc \in [Calls -> {"none", "idle", "metadata", "reading", "awaiting",
                         "aggregating", "sleeping", "done", "panicked"}]
    /\ \A c \in Calls : i[c] \in 0..(MaxRetry + 1) /\ inflight[c] \in 0..1

\* the delegate's answer recorded at position p
IsFailureCallback(e) == e.ev \in {"http_error", "http_failure"}

Is2xx(out) == out.kind = "res" /\ out.status >= 200 /\ out.status <= 299

\* every attempt so far failed and the delegate answered After(d) each time
AllFailedAndRetried(c, d) ==
    /\ \A p \in Pos(c) : log[c][p].ev = "response" => ~ Is2xx(log[c][p].val)
    /\ \A p \in Pos(c) :
          IsFailureCallback(log[c][p]) => log[c][p].val.dec = After(d)

\* the outcome of the last attempt
LastOutcome(c) ==
    LET ps == {p \in Pos(c) : log[c][p].ev = "response"}
        p  == CHOOSE q \in ps : \A r \in ps : r <= q
    IN  log[c][p].val

\* ------------------------------------------------------------------ claims

\* C1: every call that reached begin and returned has given the delegate
\* exactly one begin and exactly one finished, whatever the outcome
\* (stated for a delegate that keeps retry_times() >= 1).
C1_BeginAndFinishedOnce ==
    \A c \in Calls :
        (Returned(c) /\ retry_times_of(dlg[c]) >= 1) =>
            Count(c, "begin") = 1 /\ Count(c, "finished") = 1

\* C2: when the call has returned, finished was given the outcome:
\* true when the call returned Ok, false when it returned an error
\* (stated for a delegate that keeps retry_times() >= 1).
C2_FinishedFlagIsOutcome ==
    \A c \in Calls :
        (Returned(c) /\ retry_times_of(dlg[c]) >= 1) =>
            \E p \in Pos(c) :
                /\ log[c][p].ev = "finished"
                /\ log[c][p].val = (result[c].tag = "Ok")

C4_AbortEndsCall ==
    \A c \in Calls : \A p \in Pos(c) :
        (IsFailureCallback(log[c][p]) /\ log[c][p].val.dec = Abort) =>
            /\ Returned(c)
            /\ Sends(c) = log[c][p].att
            /\ Count(c, "pre_request") = log[c][p].att
            /\ Sleeps(c) = log[c][p].att - 1
            /\ \A q \in Pos(c) :
                  q > p => log[c][q].ev \in {"finished", "return"}

C4_Witness ==
    \E c \in Calls : \E p \in Pos(c) :
        /\ IsFailureCallback(log[c][p]) /\ log[c][p].val.dec = Abort
        /\ log[c][p].att = 2
        /\ Returned(c)

\* C5: a call that made an attempt and returned an error returns the failure
\* of its last attempt: the transport error, or the response's status and
\* body.
C5_ErrorCarriesLastFailure ==
    \A c \in Calls :
        (Returned(c) /\ result[c].tag # "Ok" /\ Sends(c) >= 1) =>
            LET out == LastOutcome(c)
            IN  IF out.kind = "err"
                THEN result[c] = HttpError(out.err)
                ELSE result[c] = Failure(out.status, out.body)

\* C6: a 2xx response at attempt k ends the attempts: k requests sent and
\* shown to pre_request, k-1 sleeps, no failure callback for attempt k, the
\* call goes on to read the body and, the body read, returns Ok(body).
C6_SuccessReturnsBody ==
    \A c \in Calls : \A p \in Pos(c) :
        (log[c][p].ev = "response" /\ Is2xx(log[c][p].val)) =>
            LET k == log[c][p].att  out == log[c][p].val
            IN  /\ Sends(c) = k /\ Count(c, "pre_request") = k
                /\ Sleeps(c) = k - 1
                /\ CountAt(c, "http_error", k) = 0
                /\ CountAt(c, "http_failure", k) = 0
                /\ k = 1 => /\ Count(c, "http_error") = 0
                            /\ Count(c, "http_failure") = 0
                /\ pc[c] \in {"aggregating", "done", "panicked"}
                /\ out.complete => pc[c] # "panicked"
                /\ Returned(c) => result[c] = OkResult(out.body)
                /\ \A q \in Pos(c) : q > p => log[c][q].ev \in {"return", "panic"}

C6_Witness ==
    \E c \in Calls : \E p \in Pos(c) :
        /\ log[c][p].ev = "response" /\ log[c][p].val.status = 299
        /\ log[c][p].att = 2
        /\ Returned(c) /\ result[c] = OkResult("ok")

\* C7: the requests sent by a call never outnumber the retry_times() the
\* delegate returned to it.
C7_SendsWithinRetryTimes ==
    \A c \in Calls :
        /\ Sends(c) <= retry_times_of(dlg[c])
        /\ Count(c, "retry_times") = 0 => Sends(c) = 0
        /\ \A p \in Pos(c) :
              log[c][p].ev = "retry_times" => Sends(c) <= log[c][p].val

C7_Witness ==
    \E c \in Calls :
        Sends(c) = retry_times_of(dlg[c]) /\ Sends(c) = MaxRetry

\* C8: an attempt other than the first comes right after a failed attempt
\* for which the delegate answered After: failure callback, sleep, wake-up,
\* next attempt.
C8_NoRetryWithoutConsent ==
    \A c \in Calls : \A p \in Pos(c) :
        (log[c][p].ev = "pre_request" /\ log[c][p].att > 1) =>
            /\ p > 4
            /\ log[c][p - 1].ev = "wake"
            /\ log[c][p - 2].ev = "sleep"
            /\ IsFailureCallback(log[c][p - 3])
            /\ log[c][p - 3].att = log[c][p].att - 1
            /\ log[c][p - 3].val.dec.kind = "After"
            /\ log[c][p - 4].ev = "response"
            /\ ~ Is2xx(log[c][p - 4].val)

C8_Witness ==
    \E c \in Calls : \E p \in Pos(c) :
        log[c][p].ev = "pre_request" /\ log[c][p].att = 3

\* C9: each send comes right after the one pre_request of its attempt, with
\* the same request; a transport error is followed by one http_error, a
\* non-2xx response by one http_failure, a 2xx response by neither; every
\* failure callback answers the response just before it.
C9_CallbacksPerAttempt ==
    \A c \in Calls : \A p \in Pos(c) :
        LET e == log[c][p]  k == log[c][p].att
        IN  /\ e.ev = "send" =>
                  /\ p > 1 /\ log[c][p - 1] = Ev("pre_request", k, e.val)
                  /\ CountAt(c, "pre_request", k) = 1
                  /\ CountAt(c, "send", k) = 1
            /\ e.ev = "pre_request" =>
                  p < Len(log[c]) /\ log[c][p + 1].ev = "send"
            /\ e.ev = "response" =>
                  /\ CountAt(c, "response", k) = 1
                  /\ CountAt(c, "http_error", k)
                        = (IF e.val.kind = "err" THEN 1 ELSE 0)
                  /\ CountAt(c, "http_failure", k)
                        = (IF e.val.kind = "res" /\ ~ Is2xx(e.val)
                           THEN 1 ELSE 0)
            /\ e.ev = "http_error" =>
                  /\ log[c][p - 1].ev = "response"
                  /\ log[c][p - 1].val = ErrOutcome(e.val.err)
            /\ e.ev = "http_failure" =>
                  /\ log[c][p - 1].ev = "response"
                  /\ log[c][p - 1].val
                        = ResOutcome(e.val.status, e.val.body, TRUE)

C9_Witness ==
    \E c \in Calls :
        /\ Count(c, "http_error") >= 1 /\ Count(c, "http_failure") >= 1
        /\ Returned(c) /\ result[c].tag = "Ok"

\* C10: at most one request of a call is in flight, and attempt N+1 is sent
\* only after attempt N was answered, the delegate answered After(d), a
\* sleep of d was started and d seconds have passed since.
C10_StrictlySequential ==
    \A c \in Calls :
        /\ inflight[c] <= 1
        /\ inflight[c] = Sends(c) - Count(c, "response")
        /\ \A p \in Pos(c) :
              (log[c][p].ev = "send" /\ log[c][p].att > 1) =>
                  /\ p > 5
                  /\ log[c][p - 5] .ev = "response"
                  /\ log[c][p - 5].att = log[c][p].att - 1
                  /\ IsFailureCallback(log[c][p - 4])
                  /\ log[c][p - 4].val.dec.kind = "After"
                  /\ log[c][p - 3].ev = "sleep"
                  /\ log[c][p - 3].val.d = log[c][p - 4].val.dec.d
                  /\ log[c][p - 2].ev = "wake"
                  /\ log[c][p - 2].val
                        >= log[c][p - 3].val.at + log[c][p - 3].val.d
                  /\ log[c][p].val.timestamp >= log[c][p - 2].val

C10_Witness ==
    \E c \in Calls : \E p \in Pos(c) :
        /\ log[c][p].ev = "send" /\ log[c][p].att = 2
        /\ log[c][p - 3].val.d = MaxDur
        /\ log[c][p - 3].val.at = MaxClock

\* C11: when the delegate answers Abort, the call returns the failure of that
\* attempt in its own variant: Error::HttpError with the transport error, or
\* Error::Failure with the response's status and body.
C11_AbortSurfacesFailure ==
    \A c \in Calls : \A p \in Pos(c) :
        (IsFailureCallback(log[c][p]) /\ log[c][p].val.dec = Abort) =>
            /\ Returned(c)
            /\ log[c][p].ev = "http_error" =>
                  /\ result[c].tag = "HttpError"
                  /\ result[c].err = log[c][p - 1].val.err
                  /\ log[c][p - 1].val.kind = "err"
            /\ log[c][p].ev = "http_failure" =>
                  /\ result[c].tag = "Failure"
                  /\ result[c].status = log[c][p - 1].val.status
                  /\ result[c].body = log[c][p - 1].val.body
                  /\ log[c][p - 1].val.kind = "res"

C11_Witness ==
    \E c \in Calls : \E p \in Pos(c) :
        /\ log[c][p].ev = "http_error" /\ log[c][p].val.dec = Abort
        /\ log[c][p].att = 2 /\ log[c][p].val.err = "tls"
        /\ Count(c, "http_failure") = 1
        /\ Returned(c)

C13_SizeLimitError ==
    \A c \in Calls :
        (kind[c] \in {"image", "speech"} /\ Returned(c)
            /\ file[c].exists /\ file[c].len >= 4194304) =>
            result[c].tag = "UploadSizeLimitExceeded"

\* C14: a call is on its way or it has returned, Ok with a body or an error,
\* after at most retry_times() attempts: doit has no other way to end.
C14_OnlySuccessOrAborted ==
    \A c \in Calls :
        \/ pc[c] \in {"none", "idle", "awaiting", "aggregating", "sleeping"}
        \/ /\ Returned(c)
           /\ result[c].tag \in {"Ok", "HttpError", "Failure", "Cancelled"}
           /\ Sends(c) <= retry_times_of(dlg[c])

\* C15: a call given no delegate runs with DefaultDelegate: the retry bound
\* it reads is 3, every failure is answered with Abort, and so the call
\* sends exactly one request and never sleeps, whatever the outcome.
C15_DefaultDelegate ==
    \A c \in Calls :
        (dlg[c].kind = "default" /\ pc[c] \notin {"none", "idle"}) =>
            /\ retry_times[c] = 3
            /\ \E p \in Pos(c) : log[c][p] = Ev("retry_times", 0, 3)
            /\ \A p \in Pos(c) :
                  IsFailureCallback(log[c][p]) => log[c][p].val.dec = Abort
            /\ Sends(c) = 1 /\ Sleeps(c) = 0
            /\ pc[c] \in {"awaiting", "aggregating", "done", "panicked"}
            /\ (Count(c, "response") = 1 /\ ~ Is2xx(LastOutcome(c)))
                  => Returned(c)

C15_Witness ==
    \E c \in Calls :
        /\ dlg[c].kind = "default" /\ Returned(c)
        /\ result[c].tag = "Failure" /\ Sends(c) = 1

\* the payload whose digest the signature in auth was computed over
HashedPayload(auth) == auth.signature.hex.hmac[4].sha256_hex[8].sha256_hex

\* C16: every attempt reads the clock when it is made and its Authorization
\* is the signature computed for that reading and for the call's payload;
\* attempts of different (non-zero) timestamps carry different signatures,
\* attempts of one call sign the same payload.
C16_FreshSignaturePerAttempt ==
    [][\A c \in Calls :
        Sends(c)' > Sends(c) =>
            LET req == log'[c][Len(log'[c])].val
            IN  /\ log'[c][Len(log'[c])].ev = "send"
                /\ req.timestamp >= clock /\ req.timestamp <= clock'
                /\ pc[c] = "sleeping" => req.timestamp >= wake[c]
                /\ req.authorization =
                      signature_v3_with_post(
                          SignatureV3Arg(payload'[c], credential,
                                         req.timestamp), clock')
                /\ \A p \in DOMAIN log'[c] :
                      log'[c][p].ev = "send" =>
                          /\ HashedPayload(log'[c][p].val.authorization)
                                = payload'[c]
                          /\ (/\ log'[c][p].val.timestamp # req.timestamp
                              /\ log'[c][p].val.timestamp # 0
                              /\ req.timestamp # 0)
                                => log'[c][p].val.authorization
                                      # req.authorization
    ]_vars

C16_Witness ==
    \E c \in Calls : \E p, q \in Pos(c) :
        /\ log[c][p].ev = "send" /\ log[c][q].ev = "send"
        /\ log[c][p].val.timestamp = 1 /\ log[c][q].val.timestamp = 2
        /\ log[c][p].val.authorization # log[c][q].val.authorization

\* C17: the body of every request sent is the payload its signature was
\* computed over, the delegate was shown that same request, and the payload
\* of a call does not change once doit runs.
C17_BodyIsSignedPayload ==
    [][\A c \in Calls :
        /\ \A p \in DOMAIN log'[c] :
              log'[c][p].ev = "send" =>
                  /\ log'[c][p].val.body = payload'[c]
                  /\ HashedPayload(log'[c][p].val.authorization)
                        = log'[c][p].val.body
        /\ pc[c] \in {"awaiting", "aggregating", "sleeping", "done",
                      "panicked"} => payload'[c] = payload[c]
    ]_vars

C17_Witness ==
    \E c \in Calls : \E p \in Pos(c) :
        /\ log[c][p].ev = "send" /\ log[c][p].att = 3
        /\ log[c][p].val.body = UploadPayload("speech", file[c])
        /\ Count(c, "http_error") >= 1 /\ Count(c, "http_failure") >= 1

\* C18: two calls of the signer with the same argument, its timestamp not 0,
\* return the same string, whatever the clock reads at each call and
\* whatever was signed before.
C18_SignerDeterministic ==
    \A p, q \in DOMAIN signed :
        (signed[p].arg = signed[q].arg /\ signed[p].arg.timestamp # 0) =>
            signed[p].out = signed[q].out

C18_Witness ==
    /\ Len(signed) = 2
    /\ signed[1].arg = signed[2].arg /\ signed[1].arg.timestamp = 1
    /\ signed[1].at = 0 /\ signed[2].at = 1
    /\ signed[1].out = signed[2].out

\* C19: sha256_hex gives the lowercase hexadecimal SHA-256 digest: once it
\* has returned, the documented JSON payload has given 35e9c5b0...34f064 and
\* the empty string e3b0c442...52b855, 64 lowercase digits each.
C19_KnownDigests ==
    hasher.pc = "done" =>
        /\ hasher.input = "documented" => hasher.hex_string =
              "35e9c5b0e3ae67532d3c9f17ead6c90222632e5b1ff7f6e89887f1398934f064"
        /\ hasher.input = "empty" => hasher.hex_string =
              "e3b0c44298fc1c149afbf4c8996fb92427ae41e4649b934ca495991b7852b855"

\* sha256_hex has returned for the documented payload, two blocks long
C19_Witness ==
    /\ hasher.pc = "done"
    /\ hasher.input = "documented"
    /\ hasher.len = 86
    /\ hasher.padded

\* the locals and arguments of call c, its delegate and the record of the
\* calls made on its delegate and for it on the transport
CallState(c) ==
    <<pc[c], dlg[c], retry_times[c], i[c], res[c], wake[c], inflight[c],
      result[c], log[c], kind[c], file[c], payload[c], customizer[c]>>

\* the outcomes of the requests of call c, in order
OwnOutcomes(c) == SelectSeq(log[c], LAMBDA e : e.ev = "response")

\* the decisions the delegate of call c returned, in order
OwnDecisions(c) == SelectSeq(log[c], IsFailureCallback)

RECURSIVE Alone(_, _, _, _, _)
\* what a call run alone ends with after k failed attempts, f of them
\* answered by the delegate, when retry_times() returned n, its requests
\* resolve to outs and its delegate decides decs
Alone(n, outs, decs, k, f) ==
    IF k >= n THEN [sends |-> k, end |-> "done", result |-> Cancelled]
    ELSE IF k + 1 > Len(outs) THEN [sends |-> k + 1, end |-> "none", result |-> NoResult]
    ELSE LET out == outs[k + 1].val
         IN  IF Is2xx(out)
             THEN IF out.complete
                  THEN [sends |-> k + 1, end |-> "done", result |-> OkResult(out.body)]
                  ELSE [sends |-> k + 1, end |-> "panicked", result |-> NoResult]
             ELSE IF f + 1 > Len(decs)
                  THEN [sends |-> k + 1, end |-> "none", result |-> NoResult]
             ELSE IF decs[f + 1].val.dec = Abort
                  THEN [sends |-> k + 1, end |-> "done",
                        result |-> IF out.kind = "err"
                                   THEN HttpError(out.err)
                                   ELSE Failure(out.status, out.body)]
             ELSE Alone(n, outs, decs, k + 1, f + 1)

\* every event of the log of call c is of call c: its requests carry its
\* payload and the client's credential, its attempts are numbered up to its
\* own, its delegate is asked retry_times once and decides as its own
\* delegate can; a call not yet polled has made no call on its delegate
OwnCallbacksOnly(c) ==
    /\ pc[c] \in {"none", "idle"} => log[c] = << >> /\ inflight[c] = 0
    /\ \A p \in Pos(c) :
          LET e == log[c][p]
          IN  /\ e.att <= i[c] + 1
              /\ e.ev \in {"pre_request", "send"} =>
                    /\ e.val.body = payload[c]
                    /\ HashedPayload(e.val.authorization) = payload[c]
                    /\ e.val.authorization.credential[1] = credential.id
              /\ e.ev = "retry_times" => e.val = retry_times_of(dlg[c])
              /\ e.ev = "http_error" => e.val.dec \in http_error(dlg[c])
              /\ e.ev = "http_failure" => e.val.dec \in http_failure(dlg[c])
              /\ e.ev = "return" => e.val = result[c]

\* the attempts and the outcome of call c are those of the call run alone
\* on the outcomes of its own requests and the decisions of its own delegate
OwnOutcome(c) ==
    pc[c] \in {"done", "panicked"} =>
        LET alone == Alone(retry_times_of(dlg[c]), OwnOutcomes(c),
                           OwnDecisions(c), 0, 0)
        IN  /\ Sends(c) = alone.sends
            /\ pc[c] = alone.end
            /\ result[c] = alone.result

\* a step is of one call: it leaves the other call's locals, delegate and
\* log alone, and it leaves the client alone
StepOfOneCall ==
    /\ credential' = credential
    /\ \A c, d \in Calls :
          (c # d /\ CallState(c)' # CallState(c)) => CallState(d)' = CallState(d)

\* C20: two calls run concurrently on the same client, each with its own
\* delegate, do not interfere: in every interleaving each delegate is given
\* the callbacks of its own call only, the attempts and the outcome of each
\* call are those it has alone on its own transport outcomes and delegate
\* decisions, and no step changes the client's credential or the other
\* call's requests in flight on the transport.
C20_NoInterference ==
    /\ [](\A c \in Calls : OwnCallbacksOnly(c) /\ OwnOutcome(c))
    /\ [][StepOfOneCall]_vars

\* call a has failed once, slept, sent again and returned Ok while the one
\* request of call b, sent meanwhile, is still unanswered
C20_Witness ==
    /\ Returned("a") /\ Sends("a") = 2 /\ result["a"].tag = "Ok"
    /\ pc["b"] = "awaiting" /\ inflight["b"] = 1
    /\ dlg["b"].kind = "custom"

\* the instant the signature in auth was computed for (the second line of
\* the string to sign)
SignedInstant(auth) == auth.signature.hex.hmac[2]

\* the day of the credential scope of auth
ScopeDate(auth) == auth.credential[2][1]

\* the canonical request the signature in auth was computed over
CanonicalRequest(auth) == auth.signature.hex.hmac[4].sha256_hex

\* the requests handed to the transport, of all calls
Sent ==
    UNION {{log[c][p].val : p \in {q \in Pos(c) : log[c][q].ev = "send"}} :
           c \in Calls}

\* C21: the Authorization of an attempt does not depend on the headers the
\* customizer adds: two requests with the same credential, payload and
\* timestamp (and signed at the same instant) carry the same Authorization
\* whatever X-TC-Region each was given, and only content-type and host are
\* signed.
C21_CustomizerNotSigned ==
    \A r1, r2 \in Sent :
        /\ r1.authorization.signed_headers = "content-type;host"
        /\ CanonicalRequest(r1.authorization)[4] = <<"content-type:", JSON_MIME>>
        /\ CanonicalRequest(r1.authorization)[5] = <<"host:", BASE_HOST>>
        /\ (/\ r1.body = r2.body
            /\ r1.timestamp = r2.timestamp
            /\ SignedInstant(r1.authorization) = SignedInstant(r2.authorization))
              => r1.authorization = r2.authorization

\* one request without X-TC-Region and one with it, same payload and
\* timestamp, not 0, same Authorization
C21_Witness ==
    \E r1, r2 \in Sent :
        /\ r1.customized = << >>
        /\ r2.customized = << <<"X-TC-Region", "ap-beijing">> >>
        /\ r1.body = r2.body
        /\ r1.timestamp = 1 /\ r2.timestamp = 1
        /\ r1.authorization = r2.authorization

\* the day the signing key of auth was derived for
KeyDate(auth) == auth.signature.hex.key.key.key.hmac

\* C22: with timestamp 0 the signer takes the current instant, for the day
\* of the credential scope and for the unix timestamp of the string to
\* sign; with any other timestamp it takes that timestamp for both and
\* its result is the same whatever the clock reads.
C22_TimestampOrNow ==
    \A p \in DOMAIN signed :
        LET arg == signed[p].arg
            out == signed[p].out
            dt  == IF arg.timestamp = 0 THEN signed[p].at ELSE arg.timestamp
        IN  /\ SignedInstant(out) = dt
            /\ ScopeDate(out) = DateOf(dt)
            /\ out.signature.hex.hmac[3][1] = DateOf(dt)
            /\ KeyDate(out) = DateOf(dt)
            /\ arg.timestamp # 0 =>
                  \A now \in {0, signed[p].at, SecondsPerDay + MaxClock} :
                      out = signature_v3_with_post(arg, now)

\* the signer was called with timestamp 0 a day after the epoch, and with
\* timestamp 1 on that day too: the first signs for day 1, the second for
\* day 0
C22_Witness ==
    /\ Len(signed) = 2
    /\ signed[1].arg.timestamp = 0 /\ signed[1].at = SecondsPerDay + 1
    /\ ScopeDate(signed[1].out) = 1
    /\ SignedInstant(signed[1].out) = SecondsPerDay + 1
    /\ signed[2].arg.timestamp = 1 /\ signed[2].at = SecondsPerDay + 1
    /\ ScopeDate(signed[2].out) = 0

\* C23: in every attempt whose clock reading is not 0, X-TC-Timestamp is the
\* timestamp the Authorization of that request was computed for: the string
\* to sign holds it, the credential scope and the signing key hold its day.
C23_HeaderIsSignedTimestamp ==
    \A c \in Calls : \A p \in Pos(c) :
        (log[c][p].ev = "send" /\ log[c][p].val.timestamp # 0) =>
            LET req == log[c][p].val
            IN  /\ SignedInstant(req.authorization) = req.timestamp
                /\ ScopeDate(req.authorization) = DateOf(req.timestamp)
                /\ KeyDate(req.authorization) = DateOf(req.timestamp)
                /\ log[c][p - 1] = Ev("pre_request", log[c][p].att, req)

\* a second attempt was sent after a sleep, its clock reading past the
\* first attempt's
C23_Witness ==
    \E c \in Calls : \E p \in Pos(c) :
        /\ log[c][p].ev = "send" /\ log[c][p].att = 2
        /\ log[c][p].val.timestamp = MaxClock + MaxDur
        /\ SignedInstant(log[c][p].val.authorization) = MaxClock + MaxDur

\* the call has ended: it returned or it panicked
Ended(c) == pc[c] \in {"done", "panicked"}

\* C24: in a call that made an attempt, sleeps are attempts minus one: every
\* sleep that is over was followed by the next attempt, and no sleep comes
\* after the attempt that ends the call (success, abort or last allowed
\* attempt), whatever the durations.
C24_SleepsBetweenAttempts ==
    \A c \in Calls :
        LET sends == Sends(c)
            sleeps == Sleeps(c)
            n == Len(log[c])
        IN  /\ (Ended(c) /\ sends >= 1) => sleeps = sends - 1
            /\ sends >= 1 =>
                  sleeps = (IF pc[c] = "sleeping" THEN sends ELSE sends - 1)
            /\ sends = 0 => sleeps = 0
            /\ \A p \in Pos(c) :
                  log[c][p].ev = "sleep" =>
                      /\ log[c][p].att < retry_times[c]
                      /\ IF p = n
                         THEN pc[c] = "sleeping" /\ log[c][p].att = sends
                         ELSE /\ p + 3 <= n
                              /\ log[c][p + 1].ev = "wake"
                              /\ log[c][p + 2].ev = "pre_request"
                              /\ log[c][p + 3].ev = "send"
                              /\ log[c][p + 3].att = log[c][p].att + 1

\* a call has ended at its last allowed attempt after sleeps of different
\* durations
C24_Witness ==
    \E c \in Calls : \E p, q \in Pos(c) :
        /\ Ended(c) /\ Sends(c) = MaxRetry /\ Sleeps(c) = MaxRetry - 1
        /\ retry_times[c] = MaxRetry /\ result[c] = Cancelled
        /\ log[c][p].ev = "sleep" /\ log[c][p].val.d = 0
        /\ log[c][q].ev = "sleep" /\ log[c][q].val.d = MaxDur

\* the calls made on the delegate
IsCallback(e) ==
    e.ev \in {"begin", "retry_times", "pre_request", "http_error",
              "http_failure", "finished"}

\* C25: the callbacks of a call are ordered: begin is the first and comes
\* before the retry_times query and every pre_request; in an attempt
\* pre_request comes before the failure callback (pre_request, send,
\* response, callback); finished, when it is called, is the last callback:
\* only the return follows it, no pre_request, no send and no sleep.
C25_CallbackOrder ==
    \A c \in Calls :
        LET n == Len(log[c])
        IN  /\ n >= 1 => log[c][1].ev = "begin"
            /\ \A p \in Pos(c) :
                  LET e == log[c][p]
                  IN  /\ e.ev = "begin" => p = 1
                      /\ e.ev = "retry_times" => p = 2
                      /\ e.ev = "pre_request" => p > 2
                      /\ IsFailureCallback(e) =>
                            /\ p > 3
                            /\ log[c][p - 3].ev = "pre_request"
                            /\ log[c][p - 3].att = e.att
                            /\ log[c][p - 2].ev = "send"
                            /\ log[c][p - 1].ev = "response"
                      /\ e.ev = "finished" =>
                            /\ p = n - 1
                            /\ ~ IsCallback(log[c][n])
                            /\ log[c][n].ev = "return"

\* finished was called at the third attempt of a call, after an http_error
\* and an http_failure
C25_Witness ==
    \E c \in Calls : \E p \in Pos(c) :
        /\ log[c][p].ev = "finished" /\ Sends(c) = 3
        /\ Count(c, "http_error") >= 1 /\ Count(c, "http_failure") >= 1
        /\ Returned(c)

\* C26: when retry_times() returns 0 the call calls begin, sends no request,
\* calls no pre_request and no failure callback, and returns
\* Error::Cancelled; when it returns 1 or more, a request is sent before the
\* call returns.
C26_ZeroRetryTimes ==
    \A c \in Calls :
        pc[c] \notin {"none", "idle"} =>
            /\ retry_times_of(dlg[c]) = 0 =>
                  /\ Returned(c) /\ result[c] = Cancelled
                  /\ log[c] = << Ev("begin", 0, "tmt"), Ev("retry_times", 0, 0),
                                 Ev("return", 0, Cancelled) >>
                  /\ Sends(c) = 0 /\ Count(c, "pre_request") = 0
                  /\ Count(c, "http_error") = 0
                  /\ Count(c, "http_failure") = 0
                  /\ inflight[c] = 0
            /\ retry_times_of(dlg[c]) >= 1 =>
                  /\ Sends(c) >= 1
                  /\ \A p \in Pos(c) :
                        log[c][p].ev = "return" =>
                            \E q \in Pos(c) : q < p /\ log[c][q].ev = "send"

\* a call whose delegate returns 0 has returned
C26_Witness ==
    \E c \in Calls :
        /\ dlg[c] = CustomDelegate(0) /\ Returned(c)
        /\ result[c] = Cancelled /\ Count(c, "begin") = 1

\* C27: the bound is asked for once in a call, after begin and before the
\* first attempt, and the call keeps to that answer: a delegate whose
\* retry_times() has changed since (in http_error or http_failure) does not
\* change how many attempts the call is allowed.
C27_BoundReadOnce ==
    \A c \in Calls :
        pc[c] \notin {"none", "idle"} =>
            /\ Count(c, "retry_times") = 1
            /\ log[c][1].ev = "begin" /\ log[c][2].ev = "retry_times"
            /\ \A p \in Pos(c) : log[c][p].ev = "pre_request" => p > 2
            /\ retry_times[c] = log[c][2].val
            /\ Sends(c) <= log[c][2].val
            /\ (Returned(c) /\ AllFailedAndRetried(c, 0)) =>
                  /\ Sends(c) = log[c][2].val
                  /\ result[c] = Cancelled
            /\ \A p \in Pos(c) :
                  (IsFailureCallback(log[c][p])
                      /\ log[c][p].val.dec.kind = "After") =>
                      IF log[c][p].att < log[c][2].val
                      THEN /\ p < Len(log[c])
                           /\ log[c][p + 1].ev = "sleep"
                           /\ pc[c] # "sleeping" =>
                                 CountAt(c, "send", log[c][p].att + 1) = 1
                      ELSE /\ Returned(c) /\ result[c] = Cancelled
                           /\ Sends(c) = log[c][2].val

\* a call was told 3, its delegate has answered 0 since its first
\* http_error, and the call has made its 3 attempts
C27_Witness ==
    \E c \in Calls :
        /\ Returned(c) /\ AllFailedAndRetried(c, 0)
        /\ log[c][2] = Ev("retry_times", 0, MaxRetry)
        /\ retry_times_of(dlg[c]) = 0
        /\ Count(c, "http_error") >= 1
        /\ Sends(c) = MaxRetry

====
